---- MODULE Spec2Model ----
(***************************************************************************)
(* A model of skillify: the repository analyser and SKILL.md generator of  *)
(* src/skillify.py, and the build command of the AutoForge wrapper of      *)
(* src/examples/autoforge/entrypoint.py.                                   *)
(*                                                                         *)
(* A repository is a record of what each analyser reads from the file      *)
(* system.  Each analyser is an operator computed the way its Python code  *)
(* computes it; each specification draws a family of repositories in its   *)
(* initial states and applies the analysers in the order of the code.      *)
(***************************************************************************)
EXTENDS Integers, Sequences, FiniteSets, TLC

VARIABLES
    repo,           \* the repository on disk (read-only to the program)
    args,           \* the arguments of the call under way
    env,            \* what the environment answers: clone result, interpreter
    pc,             \* position of the call under way
    temp_dir,       \* the directory of tempfile.mkdtemp: "none", "exists", "removed"
    exc,            \* the exception the call ended with, "none" if none
    project_types,  \* generate_skill's local: detect_project_type's result
    metadata,       \* generate_skill's local: get_project_metadata's result
    tree,           \* generate_skill's local: get_directory_tree's result
    entry_points,   \* generate_skill's local: detect_entry_points's result
    key_files,      \* generate_skill's local: extract_key_files's result
    readme,         \* generate_skill's local: get_readme_content's result
    out,            \* the output directory: SKILL.md, references/, scripts/
    history,        \* the SKILL.md texts of the runs finished so far
    tasks_file,     \* .autoforge/tasks.json of the wrapper's project
    result          \* the wrapper's result document

vars == <<repo, args, env, pc, temp_dir, exc, project_types, metadata, tree,
          entry_points, key_files, readme, out, history, tasks_file, result>>

(***************************************************************************)
(* Helpers on sequences and strings.                                       *)
(***************************************************************************)
Range(s) == {s[i] : i \in 1..Len(s)}

Min(a, b) == IF a < b THEN a ELSE b

\* s[:n]
Take(s, n) == SubSeq(s, 1, Min(n, Len(s)))

\* str.endswith
EndsWith(f, suffix) ==
    /\ Len(f) >= Len(suffix)
    /\ SubSeq(f, Len(f) - Len(suffix) + 1, Len(f)) = suffix

\* str.startswith
StartsWith(f, prefix) ==
    /\ Len(f) >= Len(prefix)
    /\ SubSeq(f, 1, Len(prefix)) = prefix

UPPER_CASE == "ABCDEFGHIJKLMNOPQRSTUVWXYZ"

LOWER_CASE == "abcdefghijklmnopqrstuvwxyz"

\* str.lower on one character
LowerChar(c) ==
    IF \E i \in 1..Len(UPPER_CASE) : SubSeq(UPPER_CASE, i, i) = c
    THEN LET i == CHOOSE i \in 1..Len(UPPER_CASE) : SubSeq(UPPER_CASE, i, i) = c
         IN  SubSeq(LOWER_CASE, i, i)
    ELSE c

\* str.lower
RECURSIVE Lower(_)
Lower(str) ==
    IF str = "" THEN ""
    ELSE LowerChar(SubSeq(str, 1, 1)) \o Lower(SubSeq(str, 2, Len(str)))

\* str.replace("_", "-")
RECURSIVE Hyphenate(_)
Hyphenate(str) ==
    IF str = "" THEN ""
    ELSE (IF SubSeq(str, 1, 1) = "_" THEN "-" ELSE SubSeq(str, 1, 1))
         \o Hyphenate(SubSeq(str, 2, Len(str)))

\* sub in str
Contains(sub, str) ==
    \E i \in 1..(Len(str) - Len(sub) + 1) : SubSeq(str, i, i + Len(sub) - 1) = sub

\* The sequences that list every element of the finite set S exactly once.
Perms(S) ==
    {p \in [1..Cardinality(S) -> S] : \A i, j \in 1..Cardinality(S) : p[i] = p[j] => i = j}

\* The sequences over S of length at most n.
SeqsUpTo(S, n) == UNION {[1..k -> S] : k \in 0..n}

(***************************************************************************)
(* The repository.  A manifest is a record: state says what reading it     *)
(* does ("absent": exists() is false; "unreadable": open raises IOError;   *)
(* "undecodable": the bytes are not text, read raises UnicodeDecodeError;  *)
(* "malformed": the text is not a valid document of its format; "ok"),     *)
(* and each key is <<>> when the document has no such key, <<v>> when it   *)
(* has it with value v.                                                    *)
(***************************************************************************)
NoManifest ==
    [state |-> "absent", name |-> <<>>, description |-> <<>>, version |-> <<>>,
     dependencies |-> <<>>, scripts |-> <<>>]

\* dict.get(key, default) on a key modelled as <<>> or <<v>>
Get(key, default) == IF key = <<>> THEN default ELSE key[1]

NoDoc == [state |-> "absent", content |-> [text |-> "", chars |-> 0, bytes |-> 0]]

NoMakefile == [state |-> "absent", targets |-> <<>>]

(***************************************************************************)
(* Static tables of the program.                                           *)
(***************************************************************************)
PROJECT_SIGNATURES ==
    << [type |-> "python",    sigs |-> <<"pyproject.toml", "setup.py", "requirements.txt", "Pipfile">>],
       [type |-> "node",      sigs |-> <<"package.json", "package-lock.json", "yarn.lock", "pnpm-lock.yaml">>],
       [type |-> "rust",      sigs |-> <<"Cargo.toml", "Cargo.lock">>],
       [type |-> "go",        sigs |-> <<"go.mod", "go.sum">>],
       [type |-> "ruby",      sigs |-> <<"Gemfile", "Gemfile.lock", "*.gemspec">>],
       [type |-> "java",      sigs |-> <<"pom.xml", "build.gradle", "build.gradle.kts">>],
       [type |-> "dotnet",    sigs |-> <<"*.csproj", "*.sln", "*.fsproj">>],
       [type |-> "terraform", sigs |-> <<"*.tf", "terraform.tfstate">>],
       [type |-> "docker",    sigs |-> <<"Dockerfile", "docker-compose.yml", "docker-compose.yaml">>],
       [type |-> "k8s",       sigs |-> <<"*.yaml", "*.yml">>] >>

DOC_FILES ==
    << "README.md", "README.rst", "README.txt", "README",
       "CONTRIBUTING.md", "CONTRIBUTING.rst",
       "ARCHITECTURE.md", "DESIGN.md",
       "API.md", "API.rst",
       "CHANGELOG.md", "CHANGELOG.rst", "CHANGELOG",
       "docs/README.md", "docs/index.md" >>

\* Path(doc).name: the part after the last "/"
RECURSIVE PathName(_)
PathName(p) ==
    IF \E i \in 1..Len(p) : SubSeq(p, i, i) = "/"
    THEN PathName(SubSeq(p, (CHOOSE i \in 1..Len(p) : SubSeq(p, i, i) = "/") + 1, Len(p)))
    ELSE p

(***************************************************************************)
(* The names of the files under the root: rglob("*") filtered by is_file,  *)
(* mapped to .name.                                                        *)
(***************************************************************************)
FileNames(r) ==
    r.other_files
    \cup (IF r.pkg_json.state # "absent" THEN {"package.json"} ELSE {})
    \cup (IF r.pyproject.state # "absent" THEN {"pyproject.toml"} ELSE {})
    \cup (IF r.cargo.state # "absent" THEN {"Cargo.toml"} ELSE {})
    \cup (IF r.makefile.state # "absent" THEN {"Makefile"} ELSE {})
    \cup {PathName(d) : d \in {d \in Range(DOC_FILES) : r.docs[d].state # "absent"}}
    \cup r.exes

(***************************************************************************)
(* detect_project_type                                                     *)
(***************************************************************************)
\* "*" in sig
IsGlob(sig) == \E i \in 1..Len(sig) : SubSeq(sig, i, i) = "*"

\* sig.replace("*", "")
RECURSIVE StripStar(_)
StripStar(sig) ==
    IF sig = "" THEN ""
    ELSE IF SubSeq(sig, 1, 1) = "*" THEN StripStar(SubSeq(sig, 2, Len(sig)))
    ELSE SubSeq(sig, 1, 1) \o StripStar(SubSeq(sig, 2, Len(sig)))

\* one pass of the inner loop's test for the signature sig
SigMatches(sig, files) ==
    IF IsGlob(sig)
    THEN \E f \in files : EndsWith(f, StripStar(sig))
    ELSE sig \in files

\* the inner loop over one type's signatures, from signature i on: the list of
\* types with this type appended at the first signature that matches (break)
RECURSIVE ScanSignatures(_, _, _, _)
ScanSignatures(types, entry, i, files) ==
    IF i > Len(entry.sigs) THEN types
    ELSE IF SigMatches(entry.sigs[i], files) THEN Append(types, entry.type)
    ELSE ScanSignatures(types, entry, i + 1, files)

\* the outer loop over PROJECT_SIGNATURES.items(), from entry k on
RECURSIVE ScanTypes(_, _, _)
ScanTypes(types, k, files) ==
    IF k > Len(PROJECT_SIGNATURES) THEN types
    ELSE ScanTypes(ScanSignatures(types, PROJECT_SIGNATURES[k], 1, files), k + 1, files)

\* list(set(types)) or ["generic"]: a set of strings is listed in the order of the
\* interpreter's string hashes, which differ from one process to the next, so the
\* call may return any of these lists
ListOfSet(types) == Perms(Range(types))

\* detect_project_type without the fallback: return list(set(types))
detect_project_type_NoFallback(r) == ListOfSet(ScanTypes(<<>>, 1, FileNames(r)))

detect_project_type(r) ==
    LET types == ScanTypes(<<>>, 1, FileNames(r))
    IN  IF Range(types) = {} THEN {<<"generic">>} ELSE ListOfSet(types)

(***************************************************************************)
(* get_project_metadata.  Each source is a step from the metadata so far   *)
(* to [exc, md]: exc is the exception that leaves the function, "none" if  *)
(* the step ends normally.                                                 *)
(***************************************************************************)
InitialMetadata(r) ==
    [name |-> r.name, description |-> "", version |-> "", scripts |-> <<>>,
     dependencies |-> <<>>]

\* re.search(r'key\s*=\s*"([^"]+)"', content): the first key = "..." of the text
\* with at least one character between the quotes; <<>> when there is none
RegexMatch(key) == IF key # <<>> /\ key[1] # "" THEN key ELSE <<>>

\* lines 94-106: package.json, with json.load
ApplyPackageJson(md, pkg) ==
    CASE pkg.state = "absent" -> [exc |-> "none", md |-> md]
      [] pkg.state \in {"unreadable", "malformed"} -> [exc |-> "none", md |-> md]
      [] pkg.state = "undecodable" -> [exc |-> "UnicodeDecodeError", md |-> md]
      [] OTHER ->
           [exc |-> "none",
            md  |-> [name         |-> Get(pkg.name, md.name),
                     description  |-> Get(pkg.description, ""),
                     version      |-> Get(pkg.version, ""),
                     scripts      |-> Get(pkg.scripts, <<>>),
                     dependencies |-> Get(pkg.dependencies, <<>>)]]

\* lines 121-131: the except branch of pyproject.toml, the regex scan of its text
PyprojectRegex(md, py) ==
    CASE py.state = "unreadable" -> [exc |-> "none", md |-> md]
      [] py.state = "undecodable" -> [exc |-> "UnicodeDecodeError", md |-> md]
      [] OTHER ->
           [exc |-> "none",
            md  |-> [md EXCEPT
                       !.name = Get(RegexMatch(py.name), @),
                       !.description = Get(RegexMatch(py.description), @)]]

\* lines 108-131: pyproject.toml, with tomllib when the interpreter has it
ApplyPyproject(md, py, has_tomllib) ==
    CASE py.state = "absent" -> [exc |-> "none", md |-> md]
      [] ~has_tomllib -> PyprojectRegex(md, py)
      [] py.state = "unreadable" -> PyprojectRegex(md, py)
      [] py.state = "undecodable" -> [exc |-> "UnicodeDecodeError", md |-> md]
      [] py.state = "malformed" -> [exc |-> "TOMLDecodeError", md |-> md]
      [] OTHER ->
           [exc |-> "none",
            md  |-> [md EXCEPT
                       !.name = Get(py.name, @),
                       !.description = Get(py.description, ""),
                       !.version = Get(py.version, ""),
                       !.dependencies = Get(py.dependencies, <<>>)]]

\* lines 133-145: Cargo.toml, by the regex scan of its text
ApplyCargo(md, cargo) ==
    CASE cargo.state = "absent" -> [exc |-> "none", md |-> md]
      [] cargo.state = "unreadable" -> [exc |-> "none", md |-> md]
      [] cargo.state = "undecodable" -> [exc |-> "UnicodeDecodeError", md |-> md]
      [] OTHER ->
           [exc |-> "none",
            md  |-> [md EXCEPT
                       !.name = Get(RegexMatch(cargo.name), @),
                       !.description = Get(RegexMatch(cargo.description), @)]]

\* the metadata after package.json, and after pyproject.toml
AfterPackageJson(r) == ApplyPackageJson(InitialMetadata(r), r.pkg_json)

AfterPyproject(r, has_tomllib) ==
    LET a == AfterPackageJson(r)
    IN  IF a.exc # "none" THEN a ELSE ApplyPyproject(a.md, r.pyproject, has_tomllib)

get_project_metadata(r, has_tomllib) ==
    LET b == AfterPyproject(r, has_tomllib)
    IN  IF b.exc # "none" THEN b ELSE ApplyCargo(b.md, r.cargo)

(***************************************************************************)
(* extract_key_files.  A document of the repository is a record: state as  *)
(* for a manifest, and for a readable one its content, a record of the     *)
(* text's identity, its length in characters and its size in bytes.  The   *)
(* returned dict is the sequence of its items in insertion order.          *)
(***************************************************************************)
MAX_DOC_CHARS == 50000

RECURSIVE HarvestFrom(_, _, _)
HarvestFrom(key_files_, k, r) ==
    IF k > Len(DOC_FILES) THEN [exc |-> "none", key_files |-> key_files_]
    ELSE LET doc == r.docs[DOC_FILES[k]]
         IN  CASE doc.state = "absent" -> HarvestFrom(key_files_, k + 1, r)
               [] doc.state = "unreadable" -> HarvestFrom(key_files_, k + 1, r)
               [] doc.state = "undecodable" ->
                    [exc |-> "UnicodeDecodeError", key_files |-> key_files_]
               [] OTHER ->
                    IF doc.content.chars < MAX_DOC_CHARS
                    THEN HarvestFrom(Append(key_files_,
                                            [name |-> DOC_FILES[k], content |-> doc.content]),
                                     k + 1, r)
                    ELSE HarvestFrom(key_files_, k + 1, r)

extract_key_files(r) == HarvestFrom(<<>>, 1, r)

(***************************************************************************)
(* detect_entry_points                                                     *)
(***************************************************************************)
EXE_NAMES == <<"main.py", "app.py", "cli.py", "index.js", "main.rs", "main.go">>

COMMON_TARGETS == {"all", "clean", "install", "test", "build"}

MAX_TARGETS == 10

MAX_ENTRY_POINTS == 15

\* lines 224-226: the executables found at the root or under src/, in list order
RECURSIVE Executables(_, _, _)
Executables(eps, k, r) ==
    IF k > Len(EXE_NAMES) THEN eps
    ELSE Executables(IF EXE_NAMES[k] \in r.exes THEN Append(eps, EXE_NAMES[k]) ELSE eps,
                     k + 1, r)

\* one Makefile target appended whatever its name, never put first
AddTargetAppendOnly(eps, target) == Append(eps, "make " \o target)

\* lines 235-238: one Makefile target
AddTarget(eps, target) ==
    IF target \notin COMMON_TARGETS
    THEN Append(eps, "make " \o target)
    ELSE <<"make " \o target>> \o eps

RECURSIVE AddTargets(_, _, _)
AddTargets(eps, targets, k) ==
    IF k > Len(targets) THEN eps
    ELSE AddTargets(AddTarget(eps, targets[k]), targets, k + 1)

\* lines 229-240: the Makefile; targets are the names re.findall returns, in order
MakefileTargets(eps, mk) ==
    CASE mk.state = "absent" -> [exc |-> "none", eps |-> eps]
      [] mk.state = "unreadable" -> [exc |-> "none", eps |-> eps]
      [] mk.state = "undecodable" -> [exc |-> "UnicodeDecodeError", eps |-> eps]
      [] OTHER -> [exc |-> "none", eps |-> AddTargets(eps, Take(mk.targets, MAX_TARGETS), 1)]

RECURSIVE AddScripts(_, _, _)
AddScripts(eps, scripts, k) ==
    IF k > Len(scripts) THEN eps
    ELSE AddScripts(Append(eps, "npm run " \o scripts[k]), scripts, k + 1)

\* lines 243-251: the scripts of package.json, in key order
PackageScripts(eps, pkg) ==
    CASE pkg.state = "absent" -> [exc |-> "none", eps |-> eps]
      [] pkg.state \in {"unreadable", "malformed"} -> [exc |-> "none", eps |-> eps]
      [] pkg.state = "undecodable" -> [exc |-> "UnicodeDecodeError", eps |-> eps]
      [] OTHER -> [exc |-> "none", eps |-> AddScripts(eps, Get(pkg.scripts, <<>>), 1)]

\* the list before the final slice
EntryPointsFound(r) ==
    LET a == MakefileTargets(Executables(<<>>, 1, r), r.makefile)
    IN  IF a.exc # "none" THEN a ELSE PackageScripts(a.eps, r.pkg_json)

\* entry_points[:15]
Truncate(eps) == Take(eps, MAX_ENTRY_POINTS)

detect_entry_points(r) ==
    LET b == EntryPointsFound(r)
    IN  IF b.exc # "none" THEN b ELSE [exc |-> "none", eps |-> Truncate(b.eps)]

(***************************************************************************)
(* get_directory_tree.  A directory entry is a record [name, is_dir,       *)
(* denied, children]: children is the set of the entries of a directory    *)
(* ({} for a file) and denied says that iterdir raises PermissionError.    *)
(* A line of the rendering is a record of the parts of its f-string:       *)
(* prefix is the sequence of the 4-character indentation units ("bar" for  *)
(* the unit with the vertical bar, "blank" for the four spaces), connector *)
(* is "last" for the corner connector, "mid" for the tee connector, and    *)
(* "ellipsis" for the line prefix + "...".                                 *)
(***************************************************************************)
IGNORE ==
    {".git", ".venv", "venv", "node_modules", "__pycache__", ".pytest_cache",
     "target", "dist", "build", ".next", ".cache", "coverage"}

DEFAULT_MAX_DEPTH == 3

DEFAULT_MAX_FILES == 50

\* the lowered entry names the model uses, in the order of Python's string "<"
LOWER_ORDER ==
    <<".env", "a.py", "api.md", "api.rst", "app.csproj", "app.py", "architecture.md",
      "build", "cargo.lock", "cargo.toml", "changelog", "changelog.md", "changelog.rst",
      "cli.py", "contributing.md", "contributing.rst", "deploy.yml", "design.md",
      "docker-compose.yaml", "dockerfile", "docs", "gemspec", "go.sum", "index.js",
      "index.md", "lib", "main.go", "main.py", "main.rs", "main.tf", "makefile",
      "my.gemspec", "notes.txt", "package.json", "pom.xml", "pyproject.toml", "readme",
      "readme.md", "readme.rst", "readme.txt", "yaml">>

\* the entry names the model uses
ENTRY_NAMES ==
    {PathName(d) : d \in Range(DOC_FILES)} \cup Range(EXE_NAMES)
    \cup {"docs", "package.json", "pyproject.toml", "Cargo.toml", "Makefile", "Cargo.lock",
          "go.sum", "my.gemspec", "gemspec", "pom.xml", "app.csproj", "main.tf",
          "Dockerfile", "docker-compose.yaml", "deploy.yml", "notes.txt", "yaml",
          "a.py", ".env", "build", "Lib"}

\* the place of name.lower() in that order
LOWER_RANK ==
    [n \in ENTRY_NAMES |-> CHOOSE i \in 1..Len(LOWER_ORDER) : LOWER_ORDER[i] = Lower(n)]

Rank(name) == LOWER_RANK[name]

\* the sort key (not e.is_dir(), e.name.lower()) compared as tuples
KeyLess(a, b) ==
    \/ a.is_dir /\ ~b.is_dir
    \/ a.is_dir = b.is_dir /\ Rank(a.name) < Rank(b.name)

\* sorted(path.iterdir(), key=...)
RECURSIVE Sorted(_)
Sorted(entries) ==
    IF entries = {} THEN <<>>
    ELSE LET first == CHOOSE e \in entries : \A o \in entries \ {e} : KeyLess(e, o)
         IN  <<first>> \o Sorted(entries \ {first})

\* line 182
Skipped(name) == name \in IGNORE \/ StartsWith(name, ".")

\* lines 167-196: walk and its loop from entry i on; acc is [lines, file_count]
RECURSIVE Walk(_, _, _, _, _, _)
RECURSIVE WalkEntries(_, _, _, _, _, _, _)
Walk(dir, prefix, depth, acc, max_depth, max_files) ==
    IF depth > max_depth \/ acc.file_count > max_files THEN acc
    ELSE IF dir.denied THEN acc
    ELSE WalkEntries(Sorted(dir.children), 1, prefix, depth, acc, max_depth, max_files)

WalkEntries(entries, i, prefix, depth, acc, max_depth, max_files) ==
    IF i > Len(entries) THEN acc
    ELSE IF Skipped(entries[i].name)
    THEN WalkEntries(entries, i + 1, prefix, depth, acc, max_depth, max_files)
    ELSE IF acc.file_count + 1 > max_files
    THEN [lines |-> Append(acc.lines,
                           [prefix |-> prefix, connector |-> "ellipsis", name |-> "..."]),
          file_count |-> acc.file_count + 1]
    ELSE LET is_last == i = Len(entries)
             listed == [lines |-> Append(acc.lines,
                                         [prefix |-> prefix,
                                          connector |-> IF is_last THEN "last" ELSE "mid",
                                          name |-> entries[i].name]),
                        file_count |-> acc.file_count + 1]
             below == IF entries[i].is_dir
                      THEN Walk(entries[i],
                                Append(prefix, IF is_last THEN "blank" ELSE "bar"),
                                depth + 1, listed, max_depth, max_files)
                      ELSE listed
         IN  WalkEntries(entries, i + 1, prefix, depth, below, max_depth, max_files)

File(name) == [name |-> name, is_dir |-> FALSE, denied |-> FALSE, children |-> {}]

Dir(name, denied, children) ==
    [name |-> name, is_dir |-> TRUE, denied |-> denied, children |-> children]

\* the root directory of the repository: the entries given in r.root, the files
\* the other fields of r say are there, and docs/ when a document is under it
RepoRoot(r) ==
    LET present == {d \in Range(DOC_FILES) : r.docs[d].state # "absent"}
        under_docs == {d \in present : PathName(d) # d}
        at_root == (FileNames(r) \ {PathName(d) : d \in under_docs})
                   \cup (present \ under_docs)
    IN  Dir("", r.root.denied,
            r.root.children
            \cup {File(n) : n \in at_root}
            \cup (IF under_docs = {} THEN {}
                  ELSE {Dir("docs", FALSE, {File(PathName(d)) : d \in under_docs})}))

\* the lines joined by "\n", kept as their sequence
get_directory_tree(r, max_depth, max_files) ==
    Walk(RepoRoot(r), <<>>, 0, [lines |-> <<>>, file_count |-> 0], max_depth, max_files).lines

(***************************************************************************)
(* get_readme_content and generate_skill_md.  The README text is kept as   *)
(* the sequence of the blocks that split("\n\n") gives for its first       *)
(* 10,000 characters, each a record [id, len, kind]: len is the length of  *)
(* the stripped block, kind is "heading" when it starts with "#", "fence"  *)
(* when it starts with three backquotes, "prose" otherwise.                *)
(***************************************************************************)
README_NAMES == <<"README.md", "README.rst", "README.txt", "README">>

MIN_PURPOSE_LEN == 50

MAX_PURPOSE_LEN == 500

MAX_COMMANDS == 8

MAX_REFERENCES == 5

RECURSIVE ReadmeFrom(_, _)
ReadmeFrom(k, r) ==
    IF k > Len(README_NAMES) THEN [exc |-> "none", readme |-> <<>>]
    ELSE LET doc == r.docs[README_NAMES[k]]
         IN  CASE doc.state = "absent" -> ReadmeFrom(k + 1, r)
               [] doc.state = "unreadable" -> ReadmeFrom(k + 1, r)
               [] doc.state = "undecodable" -> [exc |-> "UnicodeDecodeError", readme |-> <<>>]
               [] OTHER -> [exc |-> "none", readme |-> r.paragraphs[doc.content.text]]

get_readme_content(r) == ReadmeFrom(1, r)

\* lines 283-291: the first block longer than 50 that is neither heading nor fence,
\* cut to 500 characters; <<>> when there is none
RECURSIVE PurposeFrom(_, _)
PurposeFrom(paragraphs, k) ==
    IF k > Len(paragraphs) THEN <<>>
    ELSE IF paragraphs[k].len > MIN_PURPOSE_LEN /\ paragraphs[k].kind = "prose"
    THEN <<[id |-> paragraphs[k].id, len |-> Min(paragraphs[k].len, MAX_PURPOSE_LEN)]>>
    ELSE PurposeFrom(paragraphs, k + 1)

\* lines 324-354: the setup sections, in the order of the if statements
Setups(types) ==
    (IF "python" \in Range(types) THEN <<"Python Setup">> ELSE <<>>)
    \o (IF "node" \in Range(types) THEN <<"Node.js Setup">> ELSE <<>>)
    \o (IF "rust" \in Range(types) THEN <<"Rust Setup">> ELSE <<>>)

KEY_PATTERNS == <<"src/main.*", "src/lib.*", "src/index.*", "config/*", "tests/*">>

\* the rendered document, as the record of the parts its f-strings put together
generate_skill_md(r, types, md, eps, tree_lines, readme_) ==
    LET name == Lower(Hyphenate(md.name))
    IN  [name        |-> name,
         description |-> (IF md.description # "" THEN md.description
                          ELSE "Work with the " \o md.name \o " codebase.")
                         \o " Use when working on " \o name \o ", navigate " \o name
                         \o ", build " \o name \o ".",
         title       |-> md.name,
         purpose     |-> PurposeFrom(readme_, 1),
         types       |-> types,
         tree        |-> tree_lines,
         commands    |-> Take(eps, MAX_COMMANDS),
         setups      |-> Setups(types),
         references  |-> [k \in 1..Min(MAX_REFERENCES, Len(DOC_FILES)) |->
                            "references/" \o PathName(DOC_FILES[k])],
         key_files   |-> SelectSeq(KEY_PATTERNS, LAMBDA pat : pat \in r.key_globs)]

(***************************************************************************)
(* The repositories and the output directory the specifications start      *)
(* from.                                                                   *)
(***************************************************************************)
EmptyDir == [name |-> "", is_dir |-> TRUE, denied |-> FALSE, children |-> {}]

README_TEXTS ==
    [t \in {"A", "B"} |->
       IF t = "A"
       THEN << [id |-> "A1", len |-> 12, kind |-> "heading"],
               [id |-> "A2", len |-> 80, kind |-> "prose"] >>
       ELSE << [id |-> "B1", len |-> 30, kind |-> "prose"],
               [id |-> "B2", len |-> 200, kind |-> "fence"],
               [id |-> "B3", len |-> 600, kind |-> "prose"] >>]

EmptyRepo ==
    [name        |-> "My_Repo",
     other_files |-> {},
     pkg_json    |-> NoManifest,
     pyproject   |-> NoManifest,
     cargo       |-> NoManifest,
     makefile    |-> NoMakefile,
     docs        |-> [d \in Range(DOC_FILES) |-> NoDoc],
     exes        |-> {},
     paragraphs  |-> README_TEXTS,
     root        |-> EmptyDir,
     key_globs   |-> {}]

Manifest(state) == [NoManifest EXCEPT !.state = state]

Doc(text, chars, bytes) ==
    [state |-> "ok", content |-> [text |-> text, chars |-> chars, bytes |-> bytes]]

BadDoc(state) == [NoDoc EXCEPT !.state = state]

BaseNames == {PathName(d) : d \in Range(DOC_FILES)}

EmptyOut ==
    [exists |-> FALSE, skill_md |-> <<>>, references |-> [b \in BaseNames |-> <<>>],
     gitkeep |-> FALSE]

NoArgs == [is_url |-> FALSE, keep_clone |-> FALSE, max_depth |-> 0, max_files |-> 0,
           project |-> "", feature |-> ""]

NoEnv == [clone_ok |-> TRUE, local_exists |-> TRUE, has_tomllib |-> TRUE, write_ok |-> TRUE,
          project_exists |-> FALSE]

NoTasksFile == [exists |-> FALSE, tasks |-> <<>>, completed |-> <<>>]

NoResult == [status |-> "", summary |-> "", action_required |-> <<>>]

NoMetadata == [name |-> "", description |-> "", version |-> "", scripts |-> <<>>,
               dependencies |-> <<>>]

\* every variable but repo, args, env and tasks_file, before a call
Idle ==
    /\ temp_dir = "none"
    /\ exc = "none"
    /\ project_types = <<>>
    /\ metadata = NoMetadata
    /\ tree = <<>>
    /\ entry_points = <<>>
    /\ key_files = <<>>
    /\ readme = <<>>
    /\ out = EmptyOut
    /\ history = <<>>
    /\ result = NoResult

(***************************************************************************)
(* generate_skill, one action per stage of the function.                   *)
(***************************************************************************)
MaxRuns == 2

RunPkgs ==
    {NoManifest, Manifest("malformed"),
     [state |-> "ok", name |-> <<"pkg_name">>, description |-> <<"pkg desc">>,
      version |-> <<"1.0.0">>, dependencies |-> << <<"left-pad">> >>,
      scripts |-> << <<"build">> >>]}

RunPyprojects ==
    {NoManifest, Manifest("malformed"), Manifest("undecodable"),
     [state |-> "ok", name |-> <<"py_name">>, description |-> <<"py desc">>,
      version |-> <<"0.1">>, dependencies |-> << <<"requests">> >>, scripts |-> <<>>]}

RunCargos ==
    {NoManifest,
     [NoManifest EXCEPT !.state = "ok", !.name = <<"cargo_name">>,
                        !.description = <<"cargo desc">>]}

RunReadmes ==
    {NoDoc, BadDoc("undecodable"), Doc("A", 1200, 1200), Doc("A", 20000, 60000),
     Doc("A", 60000, 60000)}

RunDocsReadmes == {NoDoc, Doc("B", 900, 900)}

RunRepos ==
    {[EmptyRepo EXCEPT !.pkg_json = p, !.pyproject = y, !.cargo = c,
                       !.docs = [@ EXCEPT !["README.md"] = d1, !["docs/README.md"] = d2]] :
        p \in RunPkgs, y \in RunPyprojects, c \in RunCargos,
        d1 \in RunReadmes, d2 \in RunDocsReadmes}

RunArgs == {[NoArgs EXCEPT !.is_url = u, !.keep_clone = k,
                           !.max_depth = DEFAULT_MAX_DEPTH, !.max_files = DEFAULT_MAX_FILES] :
              u \in BOOLEAN, k \in BOOLEAN}

RunEnvs == {[NoEnv EXCEPT !.clone_ok = c, !.local_exists = l, !.has_tomllib = t,
                          !.write_ok = w] :
              c \in BOOLEAN, l \in BOOLEAN, t \in BOOLEAN, w \in BOOLEAN}

Init ==
    /\ repo \in RunRepos
    /\ args \in RunArgs
    /\ env \in {e \in RunEnvs : IF args.is_url THEN e.local_exists ELSE e.clone_ok}
    /\ tasks_file = NoTasksFile
    /\ pc = "start"
    /\ Idle

\* lines 416-430: the temporary directory and the clone, or the local path
Acquire ==
    /\ pc = "start"
    /\ IF args.is_url
       THEN /\ temp_dir' = "exists"
            /\ IF env.clone_ok
               THEN pc' = "analyze" /\ exc' = "none"
               ELSE pc' = "raised" /\ exc' = "RuntimeError"
       ELSE /\ temp_dir' = "none"
            /\ IF env.local_exists
               THEN pc' = "analyze" /\ exc' = "none"
               ELSE pc' = "raised" /\ exc' = "FileNotFoundError"
    /\ UNCHANGED <<repo, args, env, project_types, metadata, tree, entry_points, key_files,
                   readme, out, history, tasks_file, result>>

\* lines 433-455: the six analysers in the order of the code; the first exception
\* leaves the try block
Analyze ==
    /\ pc = "analyze"
    /\ \E types \in detect_project_type(repo) :
         LET m == get_project_metadata(repo, env.has_tomllib)
             rd == get_readme_content(repo)
             e == detect_entry_points(repo)
             k == extract_key_files(repo)
             failed == IF m.exc # "none" THEN m.exc
                       ELSE IF rd.exc # "none" THEN rd.exc
                       ELSE IF e.exc # "none" THEN e.exc
                       ELSE k.exc
         IN  /\ project_types' = types
             /\ metadata' = IF m.exc = "none" THEN m.md ELSE metadata
             /\ readme' = IF m.exc = "none" /\ rd.exc = "none" THEN rd.readme ELSE readme
             /\ tree' = IF m.exc = "none" /\ rd.exc = "none"
                        THEN get_directory_tree(repo, args.max_depth, args.max_files)
                        ELSE tree
             /\ entry_points' = IF m.exc = "none" /\ rd.exc = "none" /\ e.exc = "none"
                                THEN e.eps ELSE entry_points
             /\ key_files' = IF failed = "none" THEN k.key_files ELSE key_files
             /\ exc' = failed
             /\ pc' = IF failed = "none" THEN "write" ELSE "finally"
    /\ UNCHANGED <<repo, args, env, temp_dir, out, history, tasks_file, result>>

\* lines 477-479: each harvested document written under its base name, in dict order
RECURSIVE WriteReferences(_, _, _)
WriteReferences(refs, kf, k) ==
    IF k > Len(kf) THEN refs
    ELSE WriteReferences([refs EXCEPT ![PathName(kf[k].name)] = <<kf[k].content>>], kf, k + 1)

\* lines 457-491: the output directory, SKILL.md, references/ and scripts/.gitkeep;
\* an output directory that cannot be created raises OSError from mkdir
Write ==
    /\ pc = "write"
    /\ IF env.write_ok
       THEN LET skill_md == generate_skill_md(repo, project_types, metadata, entry_points,
                                              tree, readme)
            IN  /\ out' = [exists     |-> TRUE,
                           skill_md   |-> <<skill_md>>,
                           references |-> WriteReferences(out.references, key_files, 1),
                           gitkeep    |-> TRUE]
                /\ history' = Append(history, skill_md)
                /\ exc' = "none"
       ELSE /\ exc' = "OSError"
            /\ UNCHANGED <<out, history>>
    /\ pc' = "finally"
    /\ UNCHANGED <<repo, args, env, temp_dir, project_types, metadata, tree, entry_points,
                   key_files, readme, tasks_file, result>>

\* a finally block that tests keep_clone only and removes the directory it was
\* given whether or not a temporary one was made
Cleanup_Unguarded ==
    /\ pc = "finally"
    /\ temp_dir' = IF ~args.keep_clone THEN "removed" ELSE temp_dir
    /\ pc' = IF exc = "none" THEN "done" ELSE "raised"
    /\ UNCHANGED <<repo, args, env, exc, project_types, metadata, tree, entry_points,
                   key_files, readme, out, history, tasks_file, result>>

\* lines 493-496: the finally block, then the return or the exception
Cleanup ==
    /\ pc = "finally"
    /\ temp_dir' = IF temp_dir # "none" /\ ~args.keep_clone THEN "removed" ELSE temp_dir
    /\ pc' = IF exc = "none" THEN "done" ELSE "raised"
    /\ UNCHANGED <<repo, args, env, exc, project_types, metadata, tree, entry_points,
                   key_files, readme, out, history, tasks_file, result>>

\* the generator called again on the same repository with the same arguments, in a
\* new process
Rerun ==
    /\ pc = "done"
    /\ Len(history) < MaxRuns
    /\ pc' = "start"
    /\ temp_dir' = "none"
    /\ project_types' = <<>>
    /\ metadata' = NoMetadata
    /\ tree' = <<>>
    /\ entry_points' = <<>>
    /\ key_files' = <<>>
    /\ readme' = <<>>
    /\ UNCHANGED <<repo, args, env, exc, out, history, tasks_file, result>>

Next == Acquire \/ Analyze \/ Write \/ Cleanup \/ Rerun

Spec == Init /\ [][Next]_vars

(***************************************************************************)
(* The analysers called on their own: each specification below draws the   *)
(* repositories that exercise one analyser and has the one action that     *)
(* calls it.                                                               *)
(***************************************************************************)
\* ---- detect_project_type ----
MaxFiles == 2

FILE_NAMES ==
    {"pyproject.toml", "package.json", "Cargo.lock", "go.sum", "my.gemspec", "gemspec",
     "pom.xml", "app.csproj", "main.tf", "Dockerfile", "docker-compose.yaml", "deploy.yml",
     "notes.txt", "yaml"}

InitClassify ==
    /\ repo \in {[EmptyRepo EXCEPT !.other_files = f] :
                   f \in {f \in SUBSET FILE_NAMES : Cardinality(f) <= MaxFiles}}
    /\ args = NoArgs
    /\ env = NoEnv
    /\ tasks_file = NoTasksFile
    /\ pc = "call"
    /\ Idle

CallDetectProjectType ==
    /\ pc = "call"
    /\ project_types' \in detect_project_type(repo)
    /\ pc' = "returned"
    /\ UNCHANGED <<repo, args, env, temp_dir, exc, metadata, tree, entry_points, key_files,
                   readme, out, history, tasks_file, result>>

SpecClassify == InitClassify /\ [][CallDetectProjectType]_vars

\* ---- get_project_metadata ----
MetaStrings(v) == {<<>>, <<"">>, <<v>>}

MetaPkgs ==
    {Manifest("absent"), Manifest("unreadable"), Manifest("malformed"),
     Manifest("undecodable")}
    \cup {[state |-> "ok", name |-> n, description |-> d, version |-> v,
           dependencies |-> deps, scripts |-> <<>>] :
            n \in {<<>>, <<"pkg_name">>}, d \in MetaStrings("pkg desc"),
            v \in {<<>>, <<"1.0.0">>}, deps \in {<<>>, << <<"left-pad">> >>}}

MetaPyprojects ==
    {Manifest("absent"), Manifest("unreadable"), Manifest("malformed"),
     Manifest("undecodable")}
    \cup {[state |-> "ok", name |-> n, description |-> d, version |-> v,
           dependencies |-> deps, scripts |-> <<>>] :
            n \in {<<>>, <<"py_name">>}, d \in MetaStrings("py desc"),
            v \in {<<>>, <<"0.1">>}, deps \in {<<>>, << <<"requests">> >>}}

MetaCargos ==
    {Manifest("absent"), Manifest("unreadable"), Manifest("undecodable")}
    \cup {[NoManifest EXCEPT !.state = "ok", !.name = n, !.description = d] :
            n \in {<<>>, <<"cargo_name">>}, d \in MetaStrings("cargo desc")}

InitMeta ==
    /\ repo \in {[EmptyRepo EXCEPT !.pkg_json = p, !.pyproject = y, !.cargo = c] :
                   p \in MetaPkgs, y \in MetaPyprojects, c \in MetaCargos}
    /\ args = NoArgs
    /\ env \in {[NoEnv EXCEPT !.has_tomllib = t] : t \in BOOLEAN}
    /\ tasks_file = NoTasksFile
    /\ pc = "call"
    /\ Idle

CallGetProjectMetadata ==
    /\ pc = "call"
    /\ LET m == get_project_metadata(repo, env.has_tomllib)
       IN  /\ metadata' = IF m.exc = "none" THEN m.md ELSE metadata
           /\ exc' = m.exc
           /\ pc' = IF m.exc = "none" THEN "returned" ELSE "raised"
    /\ UNCHANGED <<repo, args, env, temp_dir, project_types, tree, entry_points, key_files,
                   readme, out, history, tasks_file, result>>

SpecMeta == InitMeta /\ [][CallGetProjectMetadata]_vars

\* ---- detect_entry_points ----
MaxBase == 2

MaxRepeat == 6

MaxScripts == 3

TARGET_NAMES == {"all", "test", "deploy", "lint"}

\* the sequence s written n times over
RECURSIVE Repeat(_, _)
Repeat(seq, n) == IF n = 0 THEN <<>> ELSE seq \o Repeat(seq, n - 1)

EntryMakefiles ==
    {NoMakefile, [NoMakefile EXCEPT !.state = "unreadable"],
     [NoMakefile EXCEPT !.state = "undecodable"]}
    \cup {[state |-> "ok", targets |-> Repeat(base, n)] :
            base \in SeqsUpTo(TARGET_NAMES, MaxBase), n \in 1..MaxRepeat}

EntryPkgs ==
    {NoManifest}
    \cup {[NoManifest EXCEPT !.state = "ok",
                             !.scripts = << [k \in 1..n |-> "s" \o ToString(k)] >>] :
            n \in 0..MaxScripts}

EntryExes == {{}, {"main.py"}, {"cli.py", "main.go"}, Range(EXE_NAMES)}

InitEntry ==
    /\ repo \in {[EmptyRepo EXCEPT !.exes = x, !.makefile = m, !.pkg_json = p] :
                   x \in EntryExes, m \in EntryMakefiles, p \in EntryPkgs}
    /\ args = NoArgs
    /\ env = NoEnv
    /\ tasks_file = NoTasksFile
    /\ pc = "call"
    /\ Idle

CallDetectEntryPoints ==
    /\ pc = "call"
    /\ LET e == detect_entry_points(repo)
       IN  /\ entry_points' = IF e.exc = "none" THEN e.eps ELSE entry_points
           /\ exc' = e.exc
           /\ pc' = IF e.exc = "none" THEN "returned" ELSE "raised"
    /\ UNCHANGED <<repo, args, env, temp_dir, project_types, metadata, tree, key_files,
                   readme, out, history, tasks_file, result>>

SpecEntry == InitEntry /\ [][CallDetectEntryPoints]_vars

\* ---- get_directory_tree ----
MaxNesting == 2

MaxDepthArg == 2

MaxFilesArg == 3

TREE_FILES == {File("a.py"), File(".env")}

\* the listings a directory may have with at most n levels of directories below it:
\* any of the files, the ignored directory build or not, and the directory Lib
\* absent, unlistable, or with any listing of n - 1 levels
RECURSIVE Listings(_)
Listings(n) ==
    IF n = 0 THEN SUBSET TREE_FILES
    ELSE {files \cup ignored \cup lib :
            files \in SUBSET TREE_FILES,
            ignored \in {{}, {Dir("build", FALSE, {})}},
            lib \in {{}, {Dir("Lib", TRUE, {})}}
                    \cup {{Dir("Lib", FALSE, below)} : below \in Listings(n - 1)}}

InitTree ==
    /\ repo \in {[EmptyRepo EXCEPT !.root = Dir("", FALSE, listing)] :
                   listing \in Listings(MaxNesting)}
    /\ args \in {[NoArgs EXCEPT !.max_depth = d, !.max_files = f] :
                   d \in 0..MaxDepthArg, f \in 0..MaxFilesArg}
    /\ env = NoEnv
    /\ tasks_file = NoTasksFile
    /\ pc = "call"
    /\ Idle

CallGetDirectoryTree ==
    /\ pc = "call"
    /\ tree' = get_directory_tree(repo, args.max_depth, args.max_files)
    /\ pc' = "returned"
    /\ UNCHANGED <<repo, args, env, temp_dir, exc, project_types, metadata, entry_points,
                   key_files, readme, out, history, tasks_file, result>>

SpecTree == InitTree /\ [][CallGetDirectoryTree]_vars

(***************************************************************************)
(* The AutoForge wrapper's build command.  tasks.json is the record        *)
(* [exists, tasks, completed]; a task is a record [id, name, description]. *)
(* The result document keeps task and action_required as <<>> when the     *)
(* key is not in it.                                                       *)
(***************************************************************************)
BUILD_TIMEOUT == 600

\* a sessions_spawn that runs the sub-agent and hands back its result
sessions_spawn_Completes(task, label, timeout) ==
    [status |-> "ok", action |-> <<>>]

\* lines 51-75: the sub-agent is never run here, the action is handed back
sessions_spawn(task, label, timeout) ==
    [status |-> "pending",
     action |-> [tool |-> "sessions_spawn",
                 params |-> [task |-> task, label |-> label, runTimeoutSeconds |-> timeout]]]

Error(summary) ==
    [status |-> "error", summary |-> summary, task |-> <<>>, action_required |-> <<>>]

\* lines 306-308: the tasks whose name or description holds the feature
FilterFeature(tasks, feature) ==
    IF feature = "" THEN tasks
    ELSE SelectSeq(tasks, LAMBDA t : \/ Contains(Lower(feature), Lower(t.name))
                                     \/ Contains(Lower(feature), Lower(t.description)))

\* the pending tasks taken to be all the listed ones, the completed list unread
PendingTasksAllListed(tasks, completed) == tasks

\* line 311
PendingTasks(tasks, completed) == SelectSeq(tasks, LAMBDA t : t.id \notin Range(completed))

\* lines 276-390: [result, tasks_file], the result document and tasks.json afterwards
cmd_build(a, e, tf) ==
    IF a.project = ""
    THEN [result |-> Error("Project name is required"), tasks_file |-> tf]
    ELSE IF ~e.project_exists
    THEN [result |-> Error("Project '" \o a.project \o "' not found"), tasks_file |-> tf]
    ELSE IF ~tf.exists
    THEN [result |-> Error("No tasks found. Run 'plan' first."), tasks_file |-> tf]
    ELSE IF tf.tasks = <<>>
    THEN [result |-> Error("No tasks defined. Run 'plan' first."), tasks_file |-> tf]
    ELSE
      LET tasks == FilterFeature(tf.tasks, a.feature)
          pending_tasks == PendingTasks(tasks, tf.completed)
      IN  IF pending_tasks = <<>>
          THEN [result |-> [status |-> "ok",
                            summary |-> "All tasks completed for '" \o a.project \o "'!",
                            task |-> <<>>, action_required |-> <<>>],
                tasks_file |-> tf]
          ELSE
            LET task == pending_tasks[1]
                spawn_result == sessions_spawn([project |-> a.project, task |-> task],
                                               "autoforge-build-" \o a.project \o "-" \o task.id,
                                               BUILD_TIMEOUT)
            IN  CASE spawn_result.status = "pending" ->
                       [result |-> [status |-> "pending",
                                    summary |-> "Build task '" \o task.name
                                                \o "' requires OpenClaw sub-agent",
                                    task |-> <<task>>,
                                    action_required |-> <<spawn_result.action>>],
                        tasks_file |-> tf]
                  [] spawn_result.status = "error" ->
                       [result |-> [Error("Build failed") EXCEPT !.task = <<task>>],
                        tasks_file |-> tf]
                  [] OTHER ->
                       [result |-> [status |-> "ok",
                                    summary |-> "Completed task: " \o task.name,
                                    task |-> <<task>>, action_required |-> <<>>],
                        tasks_file |-> [tf EXCEPT !.completed = Append(@, task.id)]]

MaxTasks == 2

TASK_POOL ==
    {[id |-> "task-1", name |-> "Setup project structure", description |-> "Initialize"],
     [id |-> "task-2", name |-> "Build UI", description |-> "Login form"],
     [id |-> "task-3", name |-> "API", description |-> "Endpoints for the ui"]}

COMPLETED_LISTS ==
    {<<>>, <<"task-1">>, <<"task-2">>, <<"task-3">>, <<"task-1", "task-2">>,
     <<"task-1", "task-3">>, <<"task-2", "task-3">>, <<"task-1", "task-2", "task-3">>}

InitBuild ==
    /\ repo = EmptyRepo
    /\ args \in {[NoArgs EXCEPT !.project = p, !.feature = f] :
                   p \in {"", "shop"}, f \in {"", "UI", "billing"}}
    /\ env \in {[NoEnv EXCEPT !.project_exists = x] : x \in BOOLEAN}
    /\ tasks_file \in {NoTasksFile}
                      \cup {[exists |-> TRUE, tasks |-> t, completed |-> c] :
                              t \in SeqsUpTo(TASK_POOL, MaxTasks), c \in COMPLETED_LISTS}
    /\ (tasks_file.exists => env.project_exists)
    /\ pc = "call"
    /\ Idle

\* one invocation of the wrapper with the command build
Build ==
    /\ pc \in {"call", "returned"}
    /\ LET b == cmd_build(args, env, tasks_file)
       IN  /\ result' = b.result
           /\ tasks_file' = b.tasks_file
    /\ pc' = "returned"
    /\ UNCHANGED <<repo, args, env, temp_dir, exc, project_types, metadata, tree,
                   entry_points, key_files, readme, out, history>>

SpecBuild == InitBuild /\ [][Build]_vars

(***************************************************************************)
(* Properties.                                                             *)
(***************************************************************************)
Exited == pc \in {"done", "raised"}

\* C1: when generate_skill exits after a run on a remote source with keep_clone
\* false, by a return or by any exception (the failed fetch included), the
\* temporary directory made for the fetch no longer exists.
C1_TempDirRemovedOnEveryExit ==
    (Exited /\ args.is_url /\ ~args.keep_clone) => temp_dir # "exists"

Declares(manifest, field) ==
    manifest.state = "ok" /\ manifest[field] # <<>> /\ manifest[field][1] # ""

\* C2: after get_project_metadata returns, a field that package.json declared with a
\* non-empty value has that value whatever pyproject.toml and Cargo.toml declare,
\* and when package.json declares no description the description is the one of the
\* next source that declares one.
C2_FirstNonEmptyWins ==
    pc = "returned" =>
      /\ \A f \in {"name", "description", "version"} :
           Declares(repo.pkg_json, f) => metadata[f] = repo.pkg_json[f][1]
      /\ (repo.pkg_json.state = "ok" /\ repo.pkg_json.dependencies \notin {<<>>, << <<>> >>})
           => metadata.dependencies = repo.pkg_json.dependencies[1]
      /\ (~Declares(repo.pkg_json, "description") /\ Declares(repo.pyproject, "description"))
           => metadata.description = repo.pyproject.description[1]

Broken(manifest) == manifest.state \in {"malformed", "unreadable"}

NothingUndecodable ==
    /\ "undecodable" \notin {repo.pkg_json.state, repo.pyproject.state, repo.cargo.state,
                             repo.makefile.state}
    /\ \A d \in Range(DOC_FILES) : repo.docs[d].state # "undecodable"

\* C3: a run whose source was acquired, on a repository in which a manifest is
\* malformed or unreadable (every other file being readable text, the output
\* directory writable), ends by returning with SKILL.md written, and never by an
\* exception.
C3_ManifestFailuresNotFatal ==
    ( /\ Exited
      /\ exc \notin {"RuntimeError", "FileNotFoundError"}
      /\ env.write_ok
      /\ NothingUndecodable
      /\ (Broken(repo.pkg_json) \/ Broken(repo.pyproject) \/ Broken(repo.cargo)) )
    => (pc = "done" /\ exc = "none" /\ out.skill_md # <<>>)

\* C4: two runs of generate_skill on the same unchanged repository with the same
\* output path write the same SKILL.md.
C4_SameSkillMdOnRerun ==
    \A i, j \in 1..Len(history) : history[i] = history[j]

\* C5: the rendering get_directory_tree returns has at most max_files lines, the
\* ellipsis line counted.
C5_TreeAtMostMaxFilesLines ==
    pc = "returned" => Len(tree) <= args.max_files

\* the types one of whose signatures matches a file name: the name itself, or for
\* a pattern with a wildcard a name that ends with the rest of the pattern
MatchedTypes(files) ==
    {PROJECT_SIGNATURES[k].type : k \in
       {k \in 1..Len(PROJECT_SIGNATURES) :
          \E sig \in Range(PROJECT_SIGNATURES[k].sigs) : \E f \in files :
             IF IsGlob(sig) THEN EndsWith(f, StripStar(sig)) ELSE f = sig}}

IsCommonEntry(entry) == \E t \in COMMON_TARGETS : entry = "make " \o t

IsOtherTargetEntry(entry) ==
    \E t \in Range(repo.makefile.targets) \ COMMON_TARGETS : entry = "make " \o t

\* C7: detect_entry_points returns at most 15 entries, and in its result every entry
\* of a canonical Makefile target (all, clean, install, test, build) comes before
\* every entry of another Makefile target.
C7_EntryPointsBoundedAndPinned ==
    pc = "returned" =>
      /\ Len(entry_points) <= MAX_ENTRY_POINTS
      /\ \A i, j \in 1..Len(entry_points) :
           (IsCommonEntry(entry_points[i]) /\ IsOtherTargetEntry(entry_points[j])) => i < j

\* a result cut to 15 that holds canonical and other targets
C7_Witness ==
    /\ pc = "returned"
    /\ Len(EntryPointsFound(repo).eps) > MAX_ENTRY_POINTS
    /\ Len(repo.makefile.targets) > MAX_TARGETS
    /\ \E i, j \in 1..Len(entry_points) :
         IsCommonEntry(entry_points[i]) /\ IsOtherTargetEntry(entry_points[j])

\* C8: after the write step, for each entry of the harvested DocumentSet the file
\* references/<base name> has that entry's text.
C8_EveryDocumentMaterialized ==
    pc = "done" =>
      \A k \in 1..Len(key_files) :
         out.references[PathName(key_files[k].name)] = <<key_files[k].content>>

NothingPending ==
    /\ args.project # ""
    /\ env.project_exists
    /\ tasks_file.exists
    /\ \A t \in Range(tasks_file.tasks) : t.id \in Range(tasks_file.completed)

AllComplete ==
    /\ result.status = "ok"
    /\ result.summary = "All tasks completed for '" \o args.project \o "'!"
    /\ result.action_required = <<>>

\* C9, as stated: cmd_build on an existing project whose tasks file leaves no task
\* pending, whatever the number of listed tasks, answers ok, all tasks complete, with
\* no delegated action.
C9_NothingPendingAnyNumber ==
    (pc = "returned" /\ NothingPending) => AllComplete

\* C9, amended: cmd_build on an existing project whose tasks file lists at least one
\* task and leaves none pending answers ok, all tasks complete, with no delegated
\* action.
C9_NothingPendingOfSome ==
    (pc = "returned" /\ NothingPending /\ tasks_file.tasks # <<>>) => AllComplete

\* two listed tasks, both completed, and the build answered
C9_Witness ==
    /\ pc = "returned"
    /\ NothingPending
    /\ Len(tasks_file.tasks) = 2
    /\ tasks_file.tasks[1] # tasks_file.tasks[2]
    /\ AllComplete

\* C10: the DocumentSet of a finished run holds a name of the priority list exactly
\* when that file is there as readable text of fewer than 50,000 bytes, and never
\* more entries than the list has names.
C10_DocumentsUnderCeilingExactly ==
    pc = "done" =>
      /\ \A d \in Range(DOC_FILES) :
           (\E k \in 1..Len(key_files) : key_files[k].name = d)
             <=> (repo.docs[d].state = "ok" /\ repo.docs[d].content.bytes < MAX_DOC_CHARS)
      /\ Len(key_files) <= Len(DOC_FILES)

\* the places of the ellipsis lines in the rendering
EllipsisLines == {k \in 1..Len(tree) : tree[k].connector = "ellipsis"}

\* C11: the rendering get_directory_tree returns holds at most one ellipsis line,
\* and an ellipsis line is its last line: nothing is emitted once the visited
\* counter has passed max_files.
C11_OneTrailingEllipsis ==
    pc = "returned" =>
      /\ Cardinality(EllipsisLines) <= 1
      /\ \A k \in EllipsisLines : k = Len(tree)

\* the nesting level of line k of the rendering: 1 for a direct child of the root
Level(k) == Len(tree[k].prefix) + 1

\* C12: no line of the rendering get_directory_tree returns, the ellipsis lines
\* set aside, is of an entry nested more than max_depth levels below the root, the
\* root's direct children being at level 1.
C12_NoLineBelowMaxDepth ==
    pc = "returned" =>
      \A k \in (1..Len(tree)) \ EllipsisLines : Level(k) <= args.max_depth

\* lines k and m of the rendering are of entries of one directory: the same
\* indentation, and between them only lines indented further
Siblings(k, m) ==
    /\ k < m
    /\ tree[k].prefix = tree[m].prefix
    /\ \A j \in (k + 1)..(m - 1) : Len(tree[j].prefix) > Len(tree[k].prefix)

\* C13: in a rendering get_directory_tree returns without an ellipsis line, a line
\* has the corner connector exactly when no later line is of an entry of the same
\* directory, the skipped entries emitting no line and not counting as siblings;
\* every other line has the tee connector.
C13_LastEmittedSiblingHasCorner ==
    (pc = "returned" /\ EllipsisLines = {}) =>
      \A k \in 1..Len(tree) :
         /\ ~Skipped(tree[k].name)
         /\ tree[k].connector =
              IF \E m \in 1..Len(tree) : Siblings(k, m) THEN "mid" ELSE "last"

\* C14: the list detect_entry_points returns holds no command string twice.
C14_EntryPointsDistinct ==
    pc = "returned" =>
      \A i, j \in 1..Len(entry_points) : i # j => entry_points[i] # entry_points[j]

\* the project is there with its tasks file
Buildable ==
    /\ args.project # ""
    /\ env.project_exists
    /\ tasks_file.exists

\* the places in tasks.json of the tasks not yet completed
PendingPlaces ==
    {k \in 1..Len(tasks_file.tasks) : tasks_file.tasks[k].id \notin Range(tasks_file.completed)}

\* the places of the pending tasks the feature argument selects: all of them when
\* no feature is given, else those whose name or description holds the feature,
\* letter case set aside
SelectedPendingPlaces ==
    {k \in PendingPlaces :
       \/ args.feature = ""
       \/ Contains(Lower(args.feature), Lower(tasks_file.tasks[k].name))
       \/ Contains(Lower(args.feature), Lower(tasks_file.tasks[k].description))}

First(places) == CHOOSE k \in places : \A o \in places : k <= o

\* the answer of the next build call offers the task at place k: status pending,
\* the task, and a delegated action with that task's label and the timeout
OffersNext(k) ==
    /\ result'.status = "pending"
    /\ result'.task = <<tasks_file.tasks[k]>>
    /\ result'.action_required # <<>>
    /\ result'.action_required[1].params.label
         = "autoforge-build-" \o args.project \o "-" \o tasks_file.tasks[k].id
    /\ result'.action_required[1].params.runTimeoutSeconds = BUILD_TIMEOUT

\* C15, as stated: every build call on a project with a pending task answers
\* pending, offers the first pending task with a delegated action, and leaves
\* tasks.json as it was, so the calls after it do the same.
C15_PendingNeverProgresses ==
    [][(Buildable /\ PendingPlaces # {}) =>
         (OffersNext(First(PendingPlaces)) /\ tasks_file' = tasks_file)]_vars

\* C15, amended: every build call on a project with a pending task that the
\* feature argument selects answers pending, offers the first such task with a
\* delegated action, and leaves tasks.json as it was, so the calls after it do
\* the same.
C15_SelectedPendingNeverProgresses ==
    [][(Buildable /\ SelectedPendingPlaces # {}) =>
         (OffersNext(First(SelectedPendingPlaces)) /\ tasks_file' = tasks_file)]_vars

\* a build with a feature answered pending and offered the second listed task, the
\* first being pending too but not of the feature
C15_Witness ==
    /\ pc = "returned"
    /\ Buildable
    /\ args.feature # ""
    /\ PendingPlaces = {1, 2}
    /\ SelectedPendingPlaces = {2}
    /\ result.status = "pending"
    /\ result.task = <<tasks_file.tasks[2]>>
    /\ result.action_required # <<>>

\* C16: after a finished run, every link references/<file> of the References
\* section of the written SKILL.md is to a file that is there under the output
\* directory's references/.
C16_NoDanglingReferenceLinks ==
    pc = "done" =>
      \A n \in BaseNames :
         ("references/" \o n) \in Range(out.skill_md[1].references)
           => out.references[n] # <<>>

\* C17: in a run on a local path no step of generate_skill removes anything,
\* whatever keep_clone is and however the run ends: nothing is ever marked removed
\* and the source stays as it was; and a step removes a directory only in a run on
\* a remote source, and then the temporary directory this run made.
C17_LocalSourceNeverRemoved ==
    [][/\ ~args.is_url => (temp_dir' = "none" /\ repo' = repo /\ env' = env)
       /\ (temp_dir' = "removed" /\ temp_dir # "removed")
            => (args.is_url /\ temp_dir = "exists")]_vars

\* a run on a local path with keep_clone false that raised in the write step and
\* went through the finally block
C17_Witness ==
    /\ pc = "raised"
    /\ exc = "OSError"
    /\ ~args.is_url
    /\ ~args.keep_clone
    /\ env.local_exists
    /\ temp_dir = "none"

====
